---- MODULE Spec2Model ----
(***************************************************************************)
(* A model of chess_move_tests_generator.py: main reads a list of test     *)
(* cases, add_test_data annotates every legal move of each test's          *)
(* position, and the result is written out.                                *)
(*                                                                         *)
(* The rules engine (the `chess` package the script imports) is modelled   *)
(* by the operators of the first part: a board is a record, squares are    *)
(* 0..63 (a1 = 0, h8 = 63), piece types are 1..6 and WHITE is TRUE.        *)
(***************************************************************************)
EXTENDS Integers, Sequences, FiniteSets, TLC

(***************************************************************************)
(* Python values                                                           *)
(***************************************************************************)
\* None where a string is expected (a piece letter, a JSON null)
None == "None"
\* None where a piece type is expected (move.promotion); piece types are 1..6
NoPieceType == 0
\* None where a square is expected (ep_square, the square of a missing king)
NoSquare == -1

WHITE == TRUE
BLACK == FALSE

PAWN == 1
KNIGHT == 2
BISHOP == 3
ROOK == 4
QUEEN == 5
KING == 6

SQUARES == 0..63

Abs(n) == IF n < 0 THEN -n ELSE n
Sgn(n) == IF n < 0 THEN -1 ELSE IF n > 0 THEN 1 ELSE 0
Max(a, b) == IF a > b THEN a ELSE b

square_file(s) == s % 8
square_rank(s) == s \div 8

FILE_NAMES == <<"a", "b", "c", "d", "e", "f", "g", "h">>
RANK_NAMES == <<"1", "2", "3", "4", "5", "6", "7", "8">>

\* chess.square_name
square_name(s) == FILE_NAMES[square_file(s) + 1] \o RANK_NAMES[square_rank(s) + 1]

\* chess.piece_symbol: the lowercase letter of a piece type
piece_symbol(pt) == <<"p", "n", "b", "r", "q", "k">>[pt]

WhiteLetters == {"P", "N", "B", "R", "Q", "K"}
BlackLetters == {"p", "n", "b", "r", "q", "k"}

\* str.upper and str.lower on one piece letter
upper(l) ==
    CASE l = "p" -> "P" [] l = "n" -> "N" [] l = "b" -> "B"
      [] l = "r" -> "R" [] l = "q" -> "Q" [] l = "k" -> "K"
      [] OTHER -> l
lower(l) ==
    CASE l = "P" -> "p" [] l = "N" -> "n" [] l = "B" -> "b"
      [] l = "R" -> "r" [] l = "Q" -> "q" [] l = "K" -> "k"
      [] OTHER -> l

\* Piece.symbol() of a piece given by type and colour
symbol(pt, color) == IF color = WHITE THEN upper(piece_symbol(pt)) ELSE piece_symbol(pt)

\* type and colour of a piece letter
TypeOf(l) ==
    CASE l \in {"p", "P"} -> PAWN [] l \in {"n", "N"} -> KNIGHT [] l \in {"b", "B"} -> BISHOP
      [] l \in {"r", "R"} -> ROOK [] l \in {"q", "Q"} -> QUEEN [] l \in {"k", "K"} -> KING
ColorOf(l) == l \in WhiteLetters

Digits == <<"0", "1", "2", "3", "4", "5", "6", "7", "8", "9">>
RECURSIVE str(_)
str(n) == IF n < 10 THEN Digits[n + 1] ELSE str(n \div 10) \o Digits[(n % 10) + 1]

(***************************************************************************)
(* Sequence helpers                                                        *)
(***************************************************************************)
SetMax(S) == CHOOSE x \in S : \A y \in S : y <= x

\* scan_reversed: the elements of a set of squares, highest first
RECURSIVE scan_reversed(_)
scan_reversed(S) ==
    IF S = {} THEN <<>>
    ELSE LET m == SetMax(S) IN <<m>> \o scan_reversed(S \ {m})

RECURSIVE ConcatAll(_)
ConcatAll(ss) == IF ss = <<>> THEN <<>> ELSE Head(ss) \o ConcatAll(Tail(ss))

(***************************************************************************)
(* The rules engine: board queries                                         *)
(***************************************************************************)
Move(f, t, p) == [from_square |-> f, to_square |-> t, promotion |-> p]

PiecesOf(tup) == [s \in SQUARES |-> tup[s + 1]]

\* Board.piece_at, as the letter of the piece or None
piece_at(b, s) == b.pieces[s]

Occupied(pcs, s) == pcs[s] # None
OccupiedBy(pcs, color, s) == pcs[s] # None /\ ColorOf(pcs[s]) = color
IsPiece(pcs, s, pt, color) == pcs[s] # None /\ TypeOf(pcs[s]) = pt /\ ColorOf(pcs[s]) = color

\* the squares from a (excluded) on, n - 1 steps of d
Ray(a, d, n) == {a + j * d : j \in 1..(n - 1)}

\* the squares strictly between two squares of one rank, file or diagonal
Between(a, c) ==
    Ray(a,
        Sgn(square_file(c) - square_file(a)) + 8 * Sgn(square_rank(c) - square_rank(a)),
        Max(Abs(square_file(c) - square_file(a)), Abs(square_rank(c) - square_rank(a))))

\* a piece of letter l that stands df files and dr ranks from a square
\* attacks it when the squares between are empty (`clear`)
AttacksBy(l, df, dr, clear) ==
    CASE l = "P" -> Abs(df) = 1 /\ dr = 1
      [] l = "p" -> Abs(df) = 1 /\ dr = -1
      [] l \in {"N", "n"} -> {Abs(df), Abs(dr)} = {1, 2}
      [] l \in {"K", "k"} -> Max(Abs(df), Abs(dr)) = 1
      [] l \in {"B", "b"} -> Abs(df) = Abs(dr) /\ clear
      [] l \in {"R", "r"} -> (df = 0) # (dr = 0) /\ clear
      [] l \in {"Q", "q"} -> ((df = 0) # (dr = 0) \/ Abs(df) = Abs(dr)) /\ clear

\* the piece on square a attacks square t (attacks_mask, restricted to t)
Attacks(pcs, a, t) ==
    /\ pcs[a] # None
    /\ a # t
    /\ AttacksBy(pcs[a], square_file(t) - square_file(a), square_rank(t) - square_rank(a),
                 \A s \in Between(a, t) : pcs[s] = None)

\* Board.is_attacked_by
is_attacked_by(pcs, color, t) ==
    \E a \in SQUARES : OccupiedBy(pcs, color, a) /\ Attacks(pcs, a, t)

\* Board.king: the square of the king of a colour, None without one
king(pcs, color) ==
    LET ks == {s \in SQUARES : IsPiece(pcs, s, KING, color)}
    IN  IF ks = {} THEN NoSquare ELSE SetMax(ks)

\* Board.is_en_passant
is_en_passant(b, m) ==
    /\ b.ep_square # NoSquare
    /\ b.ep_square = m.to_square
    /\ b.pieces[m.from_square] # None
    /\ TypeOf(b.pieces[m.from_square]) = PAWN
    /\ Abs(m.to_square - m.from_square) \in {7, 9}
    /\ ~Occupied(b.pieces, m.to_square)

\* Board.is_capture
is_capture(b, m) ==
    \/ /\ m.from_square # m.to_square
       /\ \/ OccupiedBy(b.pieces, ~b.turn, m.from_square)
          \/ OccupiedBy(b.pieces, ~b.turn, m.to_square)
    \/ is_en_passant(b, m)

\* Board.is_castling
is_castling(b, m) ==
    /\ b.pieces[m.from_square] # None
    /\ TypeOf(b.pieces[m.from_square]) = KING
    /\ \/ Abs(square_file(m.from_square) - square_file(m.to_square)) > 1
       \/ IsPiece(b.pieces, m.to_square, ROOK, b.turn)

\* Board.is_kingside_castling, Board.is_queenside_castling
is_kingside_castling(b, m) ==
    is_castling(b, m) /\ square_file(m.to_square) > square_file(m.from_square)
is_queenside_castling(b, m) ==
    is_castling(b, m) /\ square_file(m.to_square) < square_file(m.from_square)

(***************************************************************************)
(* The rules engine: legal-move generation                                 *)
(***************************************************************************)
Own(b, pt) == {s \in SQUARES : IsPiece(b.pieces, s, pt, b.turn)}

BackRank(color) == IF color = WHITE THEN 0 ELSE 56

\* Board.clean_castling_rights without chess960: the rook squares a1, h1,
\* a8, h8 that hold a rook of the colour whose king stands on its e-square
clean_castling_rights(b) ==
    {r \in b.castling_rights :
        \E color \in {WHITE, BLACK} :
            /\ r \in {BackRank(color), BackRank(color) + 7}
            /\ IsPiece(b.pieces, r, ROOK, color)
            /\ IsPiece(b.pieces, BackRank(color) + 4, KING, color)}

KingOn(b, e) == b.pieces[e] # None /\ TypeOf(b.pieces[e]) = KING
RookOn(b, r) == b.pieces[r] # None /\ TypeOf(b.pieces[r]) = ROOK

\* Board._to_chess960: castling written as the king taking its own rook
to_chess960(b, m) ==
    IF m.from_square \in {4, 60} /\ KingOn(b, m.from_square)
    THEN IF m.to_square = m.from_square + 2 /\ ~RookOn(b, m.from_square + 2)
         THEN Move(m.from_square, m.from_square + 3, NoPieceType)
         ELSE IF m.to_square = m.from_square - 2 /\ ~RookOn(b, m.from_square - 2)
         THEN Move(m.from_square, m.from_square - 4, NoPieceType)
         ELSE m
    ELSE m

\* Board._from_chess960 without chess960: back to the king's two-square step
from_chess960(b, m) ==
    IF m.from_square \in {4, 60} /\ KingOn(b, m.from_square)
    THEN IF m.to_square = m.from_square + 3
         THEN Move(m.from_square, m.from_square + 2, NoPieceType)
         ELSE IF m.to_square = m.from_square - 4
         THEN Move(m.from_square, m.from_square - 2, NoPieceType)
         ELSE m
    ELSE m

\* Board.push, the castling branch: king and rook leave f and t for the
\* c- and d-file or the g- and f-file of the back rank r0
CastlePieces(pcs, color, f, t, r0) ==
    IF square_file(t) < square_file(f)
    THEN [pcs EXCEPT ![f] = None, ![t] = None,
                     ![r0 + 2] = symbol(KING, color), ![r0 + 3] = symbol(ROOK, color)]
    ELSE [pcs EXCEPT ![f] = None, ![t] = None,
                     ![r0 + 6] = symbol(KING, color), ![r0 + 5] = symbol(ROOK, color)]

\* the move takes en passant as Board.push finds it
PushEnPassant(b, f, t) ==
    /\ TypeOf(b.pieces[f]) = PAWN
    /\ b.ep_square # NoSquare
    /\ t = b.ep_square
    /\ Abs(t - f) \in {7, 9}
    /\ b.pieces[t] = None

\* the piece placement after the move m, given as the king taking its rook
\* when it castles
MovePieces960(b, m) ==
    IF TypeOf(b.pieces[m.from_square]) = KING /\ OccupiedBy(b.pieces, b.turn, m.to_square)
    THEN CastlePieces(b.pieces, b.turn, m.from_square, m.to_square,
                      IF b.turn = WHITE THEN 0 ELSE 56)
    ELSE [b.pieces EXCEPT
            ![m.from_square] = None,
            ![IF PushEnPassant(b, m.from_square, m.to_square)
              THEN b.ep_square + (IF b.turn = WHITE THEN -8 ELSE 8)
              ELSE m.to_square] = None,
            ![m.to_square] = IF m.promotion # NoPieceType
                             THEN symbol(m.promotion, b.turn)
                             ELSE b.pieces[m.from_square]]

\* the piece placement after a move (the placement part of Board.push)
MovePieces(b, m) == MovePieces960(b, to_chess960(b, m))

\* the moves from square f to the squares ts
MovesTo(f, ts) == [j \in 1..Len(ts) |-> Move(f, ts[j], NoPieceType)]

\* the moves of the knights, bishops, rooks, queens and king from square f
PieceMovesFrom(b, f) ==
    MovesTo(f, scan_reversed({t \in SQUARES :
                    Attacks(b.pieces, f, t) /\ ~OccupiedBy(b.pieces, b.turn, t)}))

PieceMovesFromAll(b, fs) == ConcatAll([j \in 1..Len(fs) |-> PieceMovesFrom(b, fs[j])])

PieceMoves(b) ==
    PieceMovesFromAll(b, scan_reversed({s \in SQUARES :
                    OccupiedBy(b.pieces, b.turn, s) /\ TypeOf(b.pieces[s]) # PAWN}))

\* Board.generate_castling_moves: the king on e may castle with the rook on
\* r, going to king_to while the rook goes to rook_to
CastlingOk(b, e, r, king_to, rook_to) ==
    /\ \A s \in (Between(e, king_to) \cup {king_to} \cup Between(r, rook_to) \cup {rook_to})
                \ {e, r} : b.pieces[s] = None
    /\ \A s \in Between(e, king_to) \cup {e} :
          ~is_attacked_by([b.pieces EXCEPT ![e] = None], ~b.turn, s)
    /\ ~is_attacked_by([b.pieces EXCEPT ![e] = None, ![r] = None,
                                        ![rook_to] = symbol(ROOK, b.turn)],
                       ~b.turn, king_to)

\* the castling moves with the rooks on the squares rs of the back rank r0
CastlingWith(b, r0, rs) ==
    [j \in 1..Len(rs) |-> Move(r0 + 4, r0 + (IF rs[j] < r0 + 4 THEN 2 ELSE 6), NoPieceType)]

\* Board.generate_castling_moves without chess960
CastlingOn(b, r0) ==
    CastlingWith(b, r0,
        SelectSeq(scan_reversed({r \in clean_castling_rights(b) : r \in {r0, r0 + 7}}),
                  LAMBDA r : CastlingOk(b, r0 + 4, r,
                                        r0 + (IF r < r0 + 4 THEN 2 ELSE 6),
                                        r0 + (IF r < r0 + 4 THEN 3 ELSE 5))))

CastlingMoves(b) == CastlingOn(b, BackRank(b.turn))

\* a pawn move to square t: four promotions on the last rank, else one move
PawnMovesTo(f, t) ==
    IF square_rank(t) \in {0, 7}
    THEN <<Move(f, t, QUEEN), Move(f, t, ROOK), Move(f, t, BISHOP), Move(f, t, KNIGHT)>>
    ELSE <<Move(f, t, NoPieceType)>>

PawnMovesToAll(f, ts) == ConcatAll([j \in 1..Len(ts) |-> PawnMovesTo(f, ts[j])])

PawnCapturesFrom(b, f) ==
    PawnMovesToAll(f, scan_reversed({t \in SQUARES :
                    Attacks(b.pieces, f, t) /\ OccupiedBy(b.pieces, ~b.turn, t)}))

PawnCapturesFromAll(b, fs) == ConcatAll([j \in 1..Len(fs) |-> PawnCapturesFrom(b, fs[j])])

PawnCaptures(b) == PawnCapturesFromAll(b, scan_reversed(Own(b, PAWN)))

Forward(b) == IF b.turn = WHITE THEN 8 ELSE -8

\* the empty squares one step ahead of the squares `from`
Ahead(b, from) == {t \in {p + Forward(b) : p \in from} \cap SQUARES : ~Occupied(b.pieces, t)}

SinglePushTargets(b) == Ahead(b, Own(b, PAWN))

DoublePushTargets(b) ==
    {t \in Ahead(b, SinglePushTargets(b)) :
        square_rank(t) \in (IF b.turn = WHITE THEN {2, 3} ELSE {5, 4})}

SinglePushes(b, ts) == ConcatAll([j \in 1..Len(ts) |-> PawnMovesTo(ts[j] - Forward(b), ts[j])])

DoublePushes(b, ts) == [j \in 1..Len(ts) |-> Move(ts[j] - 2 * Forward(b), ts[j], NoPieceType)]

PawnPushes(b) ==
    SinglePushes(b, scan_reversed(SinglePushTargets(b)))
    \o DoublePushes(b, scan_reversed(DoublePushTargets(b)))

\* the en passant moves of the pawns on the squares fs
EpMovesFrom(b, fs) == [j \in 1..Len(fs) |-> Move(fs[j], b.ep_square, NoPieceType)]

\* Board.generate_pseudo_legal_ep
PseudoLegalEp(b) ==
    IF b.ep_square = NoSquare \/ Occupied(b.pieces, b.ep_square) THEN <<>>
    ELSE EpMovesFrom(b, scan_reversed({f \in Own(b, PAWN) :
                        /\ Attacks(b.pieces, f, b.ep_square)
                        /\ square_rank(f) = (IF b.turn = WHITE THEN 4 ELSE 3)}))

\* Board.generate_pseudo_legal_moves
PseudoLegalMoves(b) ==
    PieceMoves(b) \o CastlingMoves(b) \o PawnCaptures(b) \o PawnPushes(b) \o PseudoLegalEp(b)

\* a move does not leave the mover's king attacked (Board._is_safe and
\* Board._ep_skewered; castling was checked when it was generated)
KingSafe(pcs, color) == ~is_attacked_by(pcs, ~color, king(pcs, color))

IsSafe(b, m) ==
    \/ king(b.pieces, b.turn) = NoSquare
    \/ is_castling(b, m)
    \/ KingSafe(MovePieces(b, m), b.turn)

\* Board.legal_moves, in the order of the iteration when the side to move is
\* not in check (in check the engine yields the same moves, king moves first)
legal_moves(b) == SelectSeq(PseudoLegalMoves(b), LAMBDA m : IsSafe(b, m))

\* Board.has_legal_en_passant
has_legal_en_passant(b) ==
    b.ep_square # NoSquare /\ SelectSeq(PseudoLegalEp(b), LAMBDA m : IsSafe(b, m)) # <<>>

\* Board.is_check, Board.is_checkmate
is_check(b) == king(b.pieces, b.turn) # NoSquare /\ ~KingSafe(b.pieces, b.turn)
is_checkmate(b) == is_check(b) /\ legal_moves(b) = <<>>

(***************************************************************************)
(* The rules engine: making a move, FEN and the notations                  *)
(***************************************************************************)
\* Board.is_zeroing
is_zeroing(b, m) ==
    /\ m.from_square # m.to_square
    /\ \E s \in {m.from_square, m.to_square} :
          \/ (b.pieces[s] # None /\ TypeOf(b.pieces[s]) = PAWN)
          \/ OccupiedBy(b.pieces, ~b.turn, s)

\* the castling rights after a move from f to t of the piece of letter l,
\* which takes the piece of letter taken (Board.push)
RightsAfter(rights, color, l, taken, f, t) ==
    IF TypeOf(l) = KING
    THEN {r \in rights \ {f, t} : square_rank(r) # square_rank(BackRank(color))}
    ELSE IF taken # None /\ TypeOf(taken) = KING
    THEN {r \in rights \ {f, t} : square_rank(r) # square_rank(BackRank(~color))}
    ELSE rights \ {f, t}

\* the en passant square after a move from f to t of the piece of letter l
EpSquareAfter(l, f, t) ==
    IF TypeOf(l) = PAWN /\ t - f = 16 /\ square_rank(f) = 1 THEN f + 8
    ELSE IF TypeOf(l) = PAWN /\ t - f = -16 /\ square_rank(f) = 6 THEN f - 8
    ELSE NoSquare

\* the board after Board.push of the move m, given as the king taking its
\* rook when it castles
BoardAfter960(b, m) ==
    [pieces |-> MovePieces960(b, m),
     turn |-> ~b.turn,
     castling_rights |-> RightsAfter(clean_castling_rights(b), b.turn,
                                     b.pieces[m.from_square], b.pieces[m.to_square],
                                     m.from_square, m.to_square),
     ep_square |-> EpSquareAfter(b.pieces[m.from_square], m.from_square, m.to_square),
     halfmove_clock |-> IF is_zeroing(b, m) THEN 0 ELSE b.halfmove_clock + 1,
     fullmove_number |-> IF b.turn = BLACK THEN b.fullmove_number + 1
                         ELSE b.fullmove_number]

\* the board after Board.push(m); the caller keeps the board before it on
\* the stack that Board.pop restores from
BoardAfter(b, m) == BoardAfter960(b, to_chess960(b, m))

\* one rank of Board.board_fen, from file `file` on, after `empty` empty squares
RECURSIVE RankFen(_, _, _, _)
RankFen(pcs, rank, file, empty) ==
    IF file = 8 THEN (IF empty > 0 THEN str(empty) ELSE "")
    ELSE IF pcs[8 * rank + file] = None THEN RankFen(pcs, rank, file + 1, empty + 1)
    ELSE (IF empty > 0 THEN str(empty) ELSE "") \o pcs[8 * rank + file]
            \o RankFen(pcs, rank, file + 1, 0)

\* Board.board_fen
board_fen(pcs) ==
    RankFen(pcs, 7, 0, 0) \o "/" \o RankFen(pcs, 6, 0, 0) \o "/" \o
    RankFen(pcs, 5, 0, 0) \o "/" \o RankFen(pcs, 4, 0, 0) \o "/" \o
    RankFen(pcs, 3, 0, 0) \o "/" \o RankFen(pcs, 2, 0, 0) \o "/" \o
    RankFen(pcs, 1, 0, 0) \o "/" \o RankFen(pcs, 0, 0, 0)

\* Board.castling_xfen without chess960
CastlingLetters(rights) ==
    (IF 7 \in rights THEN "K" ELSE "") \o (IF 0 \in rights THEN "Q" ELSE "")
    \o (IF 63 \in rights THEN "k" ELSE "") \o (IF 56 \in rights THEN "q" ELSE "")

castling_xfen(b) ==
    IF clean_castling_rights(b) = {} THEN "-" ELSE CastlingLetters(clean_castling_rights(b))

\* Board.fen
Board_fen(b) ==
    board_fen(b.pieces) \o " " \o (IF b.turn = WHITE THEN "w" ELSE "b") \o " " \o
    castling_xfen(b) \o " " \o
    (IF has_legal_en_passant(b) THEN square_name(b.ep_square) ELSE "-") \o " " \o
    str(b.halfmove_clock) \o " " \o str(b.fullmove_number)

\* Move.uci
move_uci(m) ==
    square_name(m.from_square) \o square_name(m.to_square) \o
    (IF m.promotion # NoPieceType THEN piece_symbol(m.promotion) ELSE "")

\* Board.uci
WithPromotion(c, p) == Move(c.from_square, c.to_square, p)

uci(b, m) == move_uci(WithPromotion(from_chess960(b, to_chess960(b, m)), m.promotion))

\* the origins of the legal moves lm of other pieces of the type of the
\* moving piece to the same square
OtherOrigins(b, m, lm) ==
    {lm[j].from_square : j \in {j \in 1..Len(lm) :
        /\ lm[j].to_square = m.to_square
        /\ lm[j].from_square # m.from_square
        /\ TypeOf(b.pieces[lm[j].from_square]) = TypeOf(b.pieces[m.from_square])}}

\* the file and rank letters that tell the piece on f from the pieces on
\* `others` (Board.san)
DisambiguationLetters(f, others) ==
    (IF others # {} /\ (\/ \E o \in others : square_rank(o) = square_rank(f)
                        \/ ~\E o \in others : square_file(o) = square_file(f))
     THEN FILE_NAMES[square_file(f) + 1] ELSE "")
    \o (IF \E o \in others : square_file(o) = square_file(f)
        THEN RANK_NAMES[square_rank(f) + 1] ELSE "")

Disambiguation(b, m) ==
    DisambiguationLetters(m.from_square, OtherOrigins(b, m, legal_moves(b)))

\* Board._algebraic_without_suffix for a move that does not castle, of a
\* piece of type pt from square f
AlgebraicOf(b, m, long, pt, f) ==
    (IF pt = PAWN THEN "" ELSE upper(piece_symbol(pt)))
    \o (IF long THEN square_name(f)
        ELSE IF pt # PAWN THEN Disambiguation(b, m)
        ELSE IF is_capture(b, m) THEN FILE_NAMES[square_file(f) + 1]
        ELSE "")
    \o (IF is_capture(b, m) THEN "x" ELSE IF long THEN "-" ELSE "")
    \o square_name(m.to_square)
    \o (IF m.promotion # NoPieceType THEN "=" \o upper(piece_symbol(m.promotion)) ELSE "")

\* Board._algebraic_without_suffix
algebraic_without_suffix(b, m, long) ==
    IF is_castling(b, m)
    THEN (IF square_file(m.to_square) < square_file(m.from_square) THEN "O-O-O" ELSE "O-O")
    ELSE AlgebraicOf(b, m, long, TypeOf(b.pieces[m.from_square]), m.from_square)

\* the check or mate sign of a position
CheckSuffix(after) ==
    IF is_check(after)
    THEN (IF legal_moves(after) = <<>> THEN "#" ELSE "+")
    ELSE ""

\* Board._algebraic: the notation and the sign of the position after the move
algebraic(b, m, long) ==
    algebraic_without_suffix(b, m, long) \o CheckSuffix(BoardAfter(b, m))

\* Board.san, Board.lan
san(b, m) == algebraic(b, m, FALSE)
lan(b, m) == algebraic(b, m, TRUE)

(***************************************************************************)
(* The positions of the test definitions                                   *)
(***************************************************************************)
FenWhite ==
    "1n2k3/P7/8/3pP3/8/8/8/4K2R w K d6 0 2"
FenWhite_board ==
    [pieces |-> PiecesOf(<<
         None, None, None, None, "K", None, None, "R",
         None, None, None, None, None, None, None, None,
         None, None, None, None, None, None, None, None,
         None, None, None, None, None, None, None, None,
         None, None, None, "p", "P", None, None, None,
         None, None, None, None, None, None, None, None,
         "P", None, None, None, None, None, None, None,
         None, "n", None, None, "k", None, None, None>>),
     turn |-> TRUE, castling_rights |-> {7}, ep_square |-> 43,
     halfmove_clock |-> 0, fullmove_number |-> 2]

FenBlack ==
    "r3k3/8/8/8/3Pp3/8/p7/1N2K3 b q d3 0 1"
FenBlack_board ==
    [pieces |-> PiecesOf(<<
         None, "N", None, None, "K", None, None, None,
         "p", None, None, None, None, None, None, None,
         None, None, None, None, None, None, None, None,
         None, None, None, "P", "p", None, None, None,
         None, None, None, None, None, None, None, None,
         None, None, None, None, None, None, None, None,
         None, None, None, None, None, None, None, None,
         "r", None, None, None, "k", None, None, None>>),
     turn |-> FALSE, castling_rights |-> {56}, ep_square |-> 19,
     halfmove_clock |-> 0, fullmove_number |-> 1]

FenCastle ==
    "r3k2r/8/8/8/8/8/8/R3K2R w KQkq - 0 1"
FenCastle_board ==
    [pieces |-> PiecesOf(<<
         "R", None, None, None, "K", None, None, "R",
         None, None, None, None, None, None, None, None,
         None, None, None, None, None, None, None, None,
         None, None, None, None, None, None, None, None,
         None, None, None, None, None, None, None, None,
         None, None, None, None, None, None, None, None,
         None, None, None, None, None, None, None, None,
         "r", None, None, None, "k", None, None, "r">>),
     turn |-> TRUE, castling_rights |-> {0, 7, 56, 63}, ep_square |-> NoSquare,
     halfmove_clock |-> 0, fullmove_number |-> 1]

FenStart ==
    "rnbqkbnr/pppppppp/8/8/8/8/PPPPPPPP/RNBQKBNR w KQkq - 0 1"
FenStart_board ==
    [pieces |-> PiecesOf(<<
         "R", "N", "B", "Q", "K", "B", "N", "R",
         "P", "P", "P", "P", "P", "P", "P", "P",
         None, None, None, None, None, None, None, None,
         None, None, None, None, None, None, None, None,
         None, None, None, None, None, None, None, None,
         None, None, None, None, None, None, None, None,
         "p", "p", "p", "p", "p", "p", "p", "p",
         "r", "n", "b", "q", "k", "b", "n", "r">>),
     turn |-> TRUE, castling_rights |-> {0, 7, 56, 63}, ep_square |-> NoSquare,
     halfmove_clock |-> 0, fullmove_number |-> 1]

\* a FEN the engine rejects: the board part has seven rows
FenRejected ==
    "8/8/8/8/8/8/8 w - - 0 1"

ValidFens == {FenWhite, FenBlack, FenCastle, FenStart}

\* Board.set_fen on a board made by chess.Board(): the position a FEN names
set_fen(f) ==
    CASE f = FenWhite -> FenWhite_board
      [] f = FenBlack -> FenBlack_board
      [] f = FenCastle -> FenCastle_board
      [] f = FenStart -> FenStart_board

\* the value of a local of add_test_data that holds no board
NoBoard ==
    [pieces |-> [s \in SQUARES |-> None],
     turn |-> WHITE, castling_rights |-> {}, ep_square |-> NoSquare,
     halfmove_clock |-> 0, fullmove_number |-> 1]

NoMove == Move(0, 0, NoPieceType)

(***************************************************************************)
(* get_move_type and the fields add_test_data computes for one move        *)
(***************************************************************************)
\* get_move_type, had it looked for a capture before a promotion
MoveType_capture_first(kingside, queenside, en_passant, promoting, capturing) ==
    IF kingside THEN "KingSideCastle"
    ELSE IF queenside THEN "QueenSideCastle"
    ELSE IF en_passant THEN "EnPassant"
    ELSE IF capturing THEN "Capture"
    ELSE IF promoting THEN "Promotion"
    ELSE "Basic"

\* get_move_type on the answers of the engine
MoveType(kingside, queenside, en_passant, promoting, capturing) ==
    IF kingside THEN "KingSideCastle"
    ELSE IF queenside THEN "QueenSideCastle"
    ELSE IF en_passant THEN "EnPassant"
    ELSE IF promoting
         THEN (IF capturing THEN "PromotionCapture" ELSE "Promotion")
    ELSE IF capturing THEN "Capture"
    ELSE "Basic"

get_move_type(b, m) ==
    MoveType(is_kingside_castling(b, m), is_queenside_castling(b, m),
             is_en_passant(b, m), m.promotion # NoPieceType, is_capture(b, m))

\* the name of the origin, had it been taken from the destination
from_square_name_of_destination(m) == square_name(m.to_square)

from_square_name(m) == square_name(m.from_square)

to_square_name(m) == square_name(m.to_square)

piece_letter(b, m) == piece_at(b, m.from_square)

\* the promotion letter, had its case not followed the side to move
promotion_letter_uppercase(b, m) ==
    IF m.promotion # NoPieceType
    THEN upper(piece_symbol(m.promotion))
    ELSE None

promotion_letter(b, m) ==
    IF m.promotion # NoPieceType
    THEN (IF b.turn = WHITE THEN upper(piece_symbol(m.promotion))
          ELSE lower(piece_symbol(m.promotion)))
    ELSE None

\* the capture letter, had en passant been read from the destination square
capture_letter_of_destination(b, m) == piece_at(b, m.to_square)

capture_letter(b, m) ==
    IF is_en_passant(b, m)
    THEN (IF b.turn = WHITE THEN "p" ELSE "P")
    ELSE piece_at(b, m.to_square)

\* the assignment, had it built a new dict of the FEN and the key
SetItem_new_dict(d, key, value) ==
    [x \in {"fen", key} |-> IF x = key THEN value ELSE d[x]]

\* dict assignment d[key] = value
SetItem(d, key, value) ==
    [x \in DOMAIN d \cup {key} |-> IF x = key THEN value ELSE d[x]]

(***************************************************************************)
(* The inputs                                                              *)
(***************************************************************************)
MaxTests == 2

TestDefinitions ==
    { [fen |-> FenWhite, name |-> "white"],
      [fen |-> FenBlack, moves |-> <<>>],
      [fen |-> FenCastle],
      [fen |-> FenStart, name |-> "start"],
      [fen |-> FenRejected],
      [name |-> "no fen"] }

RECURSIVE SeqsUpTo(_, _)
SeqsUpTo(S, n) ==
    IF n = 0 THEN {<<>>}
    ELSE LET shorter == SeqsUpTo(S, n - 1)
         IN  shorter \cup {Append(q, x) : q \in {q \in shorter : Len(q) = n - 1}, x \in S}

\* the content of the input file: JSON that parses to a list of test
\* definitions, or text that json.load rejects
Inputs ==
    {[json |-> TRUE, tests |-> q] : q \in SeqsUpTo(TestDefinitions, MaxTests)}
    \cup {[json |-> FALSE, tests |-> <<>>]}

(***************************************************************************)
(* The program                                                             *)
(***************************************************************************)
VARIABLES
    input,        \* the content of the input file
    output,       \* the output file: whether it was opened, and its content
    pc,           \* the statement main or add_test_data is at
    tests,        \* main: the list read from the input
    index,        \* main: the number of tests the for loop has taken
    board,        \* add_test_data: the position of the board
    stack,        \* add_test_data: the positions Board.pop restores
    yielded,      \* add_test_data: the number of moves board.legal_moves has yielded
    moves,        \* add_test_data: the records built so far
    move,         \* add_test_data: the move of this iteration
    from_square, to_square, piece, promotion, capture, move_type, fen,
    answers,      \* get_move_type on its own: what the engine answers for a move
    classified    \* get_move_type on its own: the name it returned

vars == <<input, output, pc, tests, index, board, stack, yielded, moves, move,
          from_square, to_square, piece, promotion, capture, move_type, fen,
          answers, classified>>

main_vars == <<input, output, tests, index>>
move_vars == <<move, from_square, to_square, piece, promotion, capture, move_type,
               answers, classified>>

NoAnswers ==
    [kingside |-> FALSE, queenside |-> FALSE, en_passant |-> FALSE,
     promotion |-> NoPieceType, capture |-> FALSE, destination |-> None]

NoFrame ==
    /\ board' = NoBoard
    /\ stack' = <<>>
    /\ yielded' = 0
    /\ moves' = <<>>
    /\ move' = NoMove
    /\ from_square' = None
    /\ to_square' = None
    /\ piece' = None
    /\ promotion' = None
    /\ capture' = None
    /\ move_type' = None
    /\ fen' = None

Init ==
    /\ input \in Inputs
    /\ output = [opened |-> FALSE, tests |-> <<>>]
    /\ pc = "read"
    /\ tests = <<>>
    /\ index = 0
    /\ board = NoBoard
    /\ stack = <<>>
    /\ yielded = 0
    /\ moves = <<>>
    /\ move = NoMove
    /\ from_square = None
    /\ to_square = None
    /\ piece = None
    /\ promotion = None
    /\ capture = None
    /\ move_type = None
    /\ fen = None
    /\ answers = NoAnswers
    /\ classified = None

\* main: tests = read_tests_definitions(args.input)
read_tests_definitions ==
    /\ pc = "read"
    /\ IF input.json
       THEN tests' = input.tests /\ pc' = "main_for"
       ELSE tests' = tests /\ pc' = "raised"
    /\ UNCHANGED <<input, output, index, board, stack, yielded, moves, fen>>
    /\ UNCHANGED move_vars

\* main: for test in tests
main_for ==
    /\ pc = "main_for"
    /\ IF index < Len(tests)
       THEN index' = index + 1 /\ pc' = "call"
       ELSE index' = index /\ pc' = "write"
    /\ UNCHANGED <<input, output, tests, board, stack, yielded, moves, fen>>
    /\ UNCHANGED move_vars

\* the start of add_test_data, had a test whose FEN is missing or rejected
\* been skipped
add_test_data_set_fen_skipping ==
    /\ pc = "call"
    /\ LET test == tests[index]
       IN  IF "fen" \notin DOMAIN test \/ test.fen \notin ValidFens
           THEN pc' = "main_for" /\ UNCHANGED <<board, stack, yielded, moves>>
           ELSE /\ pc' = "for"
                /\ board' = set_fen(test.fen)
                /\ stack' = <<>>
                /\ yielded' = 0
                /\ moves' = <<>>
    /\ UNCHANGED <<main_vars, fen>>
    /\ UNCHANGED move_vars

\* the start of add_test_data, had the list of records been shared by the
\* calls and gone on from the records of the test before
add_test_data_set_fen_shared_moves ==
    /\ pc = "call"
    /\ LET test == tests[index]
       IN  IF "fen" \notin DOMAIN test \/ test.fen \notin ValidFens
           THEN pc' = "raised" /\ UNCHANGED <<board, stack, yielded, moves>>
           ELSE /\ pc' = "for"
                /\ board' = set_fen(test.fen)
                /\ stack' = <<>>
                /\ yielded' = 0
                /\ moves' = IF index > 1 THEN tests[index - 1].moves ELSE <<>>
    /\ UNCHANGED <<main_vars, fen>>
    /\ UNCHANGED move_vars

\* add_test_data: board = chess.Board(); board.set_fen(test['fen']); moves = []
add_test_data_set_fen ==
    /\ pc = "call"
    /\ LET test == tests[index]
       IN  IF "fen" \notin DOMAIN test \/ test.fen \notin ValidFens
           THEN pc' = "raised" /\ UNCHANGED <<board, stack, yielded, moves>>
           ELSE /\ pc' = "for"
                /\ board' = set_fen(test.fen)
                /\ stack' = <<>>
                /\ yielded' = 0
                /\ moves' = <<>>
    /\ UNCHANGED <<main_vars, fen>>
    /\ UNCHANGED move_vars

\* add_test_data: for move in board.legal_moves, and the fields read from
\* the board before the move is made
add_test_data_for ==
    /\ pc = "for"
    /\ \E legal \in {legal_moves(board)} :
           IF yielded < Len(legal)
           THEN \E next \in {legal[yielded + 1]} :
                    /\ move' = next
                    /\ yielded' = yielded + 1
                    /\ from_square' = from_square_name(next)
                    /\ to_square' = to_square_name(next)
                    /\ piece' = piece_letter(board, next)
                    /\ promotion' = promotion_letter(board, next)
                    /\ capture' = capture_letter(board, next)
                    /\ move_type' = get_move_type(board, next)
                    /\ pc' = "push"
           ELSE /\ pc' = "assign"
                /\ UNCHANGED yielded
                /\ UNCHANGED <<move, from_square, to_square, piece, promotion,
                               capture, move_type>>
    /\ UNCHANGED <<main_vars, board, stack, moves, fen, answers, classified>>

\* add_test_data: board.push(move)
add_test_data_push ==
    /\ pc = "push"
    /\ stack' = Append(stack, board)
    /\ board' = BoardAfter(board, move)
    /\ pc' = "fen"
    /\ UNCHANGED <<main_vars, yielded, moves, fen>>
    /\ UNCHANGED move_vars

\* add_test_data: fen = board.fen()
add_test_data_fen ==
    /\ pc = "fen"
    /\ fen' = Board_fen(board)
    /\ pc' = "pop"
    /\ UNCHANGED <<main_vars, board, stack, yielded, moves>>
    /\ UNCHANGED move_vars

\* board.pop(), had it dropped the saved position without restoring it
add_test_data_pop_not_restoring ==
    /\ pc = "pop"
    /\ board' = board
    /\ stack' = SubSeq(stack, 1, Len(stack) - 1)
    /\ pc' = "append"
    /\ UNCHANGED <<main_vars, yielded, moves, fen>>
    /\ UNCHANGED move_vars

\* add_test_data: board.pop()
add_test_data_pop ==
    /\ pc = "pop"
    /\ board' = stack[Len(stack)]
    /\ stack' = SubSeq(stack, 1, Len(stack) - 1)
    /\ pc' = "append"
    /\ UNCHANGED <<main_vars, yielded, moves, fen>>
    /\ UNCHANGED move_vars

\* moves.append, had the record been put at the front of the list
add_test_data_append_in_front ==
    /\ pc = "append"
    /\ moves' = <<[move |-> [from |-> from_square, to |-> to_square, piece |-> piece,
                             capture |-> capture, promotion |-> promotion,
                             type |-> move_type],
                   uci |-> uci(board, move),
                   san |-> san(board, move),
                   lan |-> lan(board, move),
                   fen |-> fen]>> \o moves
    /\ pc' = "for"
    /\ UNCHANGED <<main_vars, board, stack, yielded, fen>>
    /\ UNCHANGED move_vars

\* add_test_data: moves.append({...})
add_test_data_append ==
    /\ pc = "append"
    /\ moves' = Append(moves,
            [move |-> [from |-> from_square, to |-> to_square, piece |-> piece,
                       capture |-> capture, promotion |-> promotion,
                       type |-> move_type],
             uci |-> uci(board, move),
             san |-> san(board, move),
             lan |-> lan(board, move),
             fen |-> fen])
    /\ pc' = "for"
    /\ UNCHANGED <<main_vars, board, stack, yielded, fen>>
    /\ UNCHANGED move_vars

\* add_test_data: test['moves'] = moves, and the return to main
add_test_data_assign ==
    /\ pc = "assign"
    /\ tests' = [tests EXCEPT ![index] = SetItem(@, "moves", moves)]
    /\ pc' = "main_for"
    /\ NoFrame
    /\ UNCHANGED <<input, output, index, answers, classified>>

\* main: write_tests_data(args.output, args.minify, tests)
write_tests_data ==
    /\ pc = "write"
    /\ output' = [opened |-> TRUE, tests |-> tests]
    /\ pc' = "done"
    /\ UNCHANGED <<input, tests, index, board, stack, yielded, moves, fen>>
    /\ UNCHANGED move_vars

Next ==
    \/ read_tests_definitions
    \/ main_for
    \/ add_test_data_set_fen
    \/ add_test_data_for
    \/ add_test_data_push
    \/ add_test_data_fen
    \/ add_test_data_pop
    \/ add_test_data_append
    \/ add_test_data_assign
    \/ write_tests_data

Spec == Init /\ [][Next]_vars

(***************************************************************************)
(* get_move_type on its own, for an engine whose answers are not tied to   *)
(* one another: every combination of answers for one move, and for the     *)
(* piece the engine reports on the destination square                      *)
(***************************************************************************)
Answers ==
    [kingside : BOOLEAN, queenside : BOOLEAN, en_passant : BOOLEAN,
     promotion : {NoPieceType, KNIGHT, BISHOP, ROOK, QUEEN},
     capture : BOOLEAN, destination : {None, "p", "P"}]

InitAnswers ==
    /\ input = [json |-> TRUE, tests |-> <<>>]
    /\ output = [opened |-> FALSE, tests |-> <<>>]
    /\ pc = "get_move_type"
    /\ tests = <<>>
    /\ index = 0
    /\ board = NoBoard
    /\ stack = <<>>
    /\ yielded = 0
    /\ moves = <<>>
    /\ move = NoMove
    /\ from_square = None
    /\ to_square = None
    /\ piece = None
    /\ promotion = None
    /\ capture = None
    /\ move_type = None
    /\ fen = None
    /\ answers \in Answers
    /\ classified = None

\* move_type = get_move_type(board, move), with the engine answering `answers`
get_move_type_call ==
    /\ pc = "get_move_type"
    /\ classified' = MoveType(answers.kingside, answers.queenside, answers.en_passant,
                              answers.promotion # NoPieceType, answers.capture)
    /\ pc' = "returned"
    /\ UNCHANGED <<main_vars, board, stack, yielded, moves, fen, answers>>
    /\ UNCHANGED <<move, from_square, to_square, piece, promotion, capture, move_type>>

NextAnswers == get_move_type_call

SpecAnswers == InitAnswers /\ [][NextAnswers]_vars

(***************************************************************************)
(* Properties                                                              *)
(***************************************************************************)
\* the position the test being annotated names
PreMove == set_fen(tests[index].fen)

TypeNames ==
    {"KingSideCastle", "QueenSideCastle", "EnPassant", "PromotionCapture",
     "Promotion", "Capture", "Basic"}

\* the first category of the list that matches, told by the occupancy of the
\* destination square
FirstMatchOf(kingside, queenside, en_passant, promotes, occupied) ==
    CASE kingside -> "KingSideCastle"
      [] ~kingside /\ queenside -> "QueenSideCastle"
      [] ~kingside /\ ~queenside /\ en_passant -> "EnPassant"
      [] ~kingside /\ ~queenside /\ ~en_passant /\ promotes /\ occupied -> "PromotionCapture"
      [] ~kingside /\ ~queenside /\ ~en_passant /\ promotes /\ ~occupied -> "Promotion"
      [] ~kingside /\ ~queenside /\ ~en_passant /\ ~promotes /\ occupied -> "Capture"
      [] OTHER -> "Basic"

FirstMatch(b, m) ==
    FirstMatchOf(is_kingside_castling(b, m), is_queenside_castling(b, m),
                 is_en_passant(b, m), m.promotion # NoPieceType,
                 piece_at(b, m.to_square) # None)

\* C1: the type of every legal move is one of the seven names, the first
\* that matches in the order kingside castle, queenside castle, en passant,
\* promotion onto an occupied square, promotion onto an empty square, move
\* onto an occupied square, Basic; a castling move is never Basic or Capture
\* and a promotion is PromotionCapture exactly when its destination is
\* occupied before the move.
C1_FirstMatch ==
    pc = "push" =>
        /\ move_type \in TypeNames
        /\ move_type = FirstMatch(board, move)
        /\ is_castling(board, move) => move_type \notin {"Basic", "Capture"}
        /\ move.promotion # NoPieceType =>
              (move_type = "PromotionCapture" <=> piece_at(board, move.to_square) # None)

C1_Witness ==
    /\ pc = "push"
    /\ move_type = "PromotionCapture"
    /\ move.promotion = KNIGHT
    /\ piece_at(board, move.to_square) # None

\* C2: the capture field is the pawn letter of the side not moving for an
\* en passant move, the letter of the piece on the destination square for a
\* Capture or PromotionCapture, and null for every other type; it is not
\* null exactly for the types EnPassant, Capture and PromotionCapture.
C2_CaptureField ==
    /\ pc = "push" =>
          capture = CASE move_type = "EnPassant" ->
                            (IF board.turn = WHITE THEN "p" ELSE "P")
                      [] move_type \in {"Capture", "PromotionCapture"} ->
                            piece_at(board, move.to_square)
                      [] OTHER -> None
    /\ pc = "push" /\ move_type = "EnPassant" => piece_at(board, move.to_square) = None
    /\ \A j \in 1..Len(moves) :
          moves[j].move.capture # None
              <=> moves[j].move.type \in {"EnPassant", "Capture", "PromotionCapture"}

C2_Witness ==
    /\ pc = "push"
    /\ move_type = "EnPassant"
    /\ board.turn = BLACK
    /\ capture = "P"
    /\ piece_at(board, move.to_square) = None

\* C3: once the position after a move has been probed (push, fen, pop), the
\* board is again the position the test's FEN names; the fields of the
\* record and the three notations are those of the move in that position,
\* and every iteration starts from it.
C3_PreMoveRestored ==
    /\ pc \in {"for", "push", "append", "assign"} =>
          board = PreMove /\ stack = <<>>
    /\ pc \in {"push", "fen", "pop", "append"} =>
          /\ piece = piece_at(PreMove, move.from_square)
          /\ move_type = get_move_type(PreMove, move)
          /\ capture = capture_letter(PreMove, move)
          /\ promotion = promotion_letter(PreMove, move)
    /\ pc = "for" /\ moves # <<>> =>
          /\ moves[Len(moves)].uci = uci(PreMove, move)
          /\ moves[Len(moves)].san = san(PreMove, move)
          /\ moves[Len(moves)].lan = lan(PreMove, move)

C3_Witness ==
    /\ pc = "append"
    /\ yielded >= 2
    /\ board = PreMove
    /\ fen = Board_fen(BoardAfter(board, move))
    /\ fen # tests[index].fen

\* C5: the output file is opened only when the input was read and every
\* test of it was annotated; when the input is malformed, or some test has
\* no FEN or a FEN the engine rejects, the run ends in an exception and the
\* output file is never opened.
InputGood ==
    /\ input.json
    /\ \A j \in 1..Len(input.tests) :
          "fen" \in DOMAIN input.tests[j] /\ input.tests[j].fen \in ValidFens

C5_NoPartialOutput ==
    /\ output.opened =>
          /\ InputGood
          /\ pc = "done"
          /\ index = Len(input.tests)
          /\ \A j \in 1..Len(output.tests) : output.tests[j].moves # <<>>
    /\ ~InputGood => ~output.opened /\ pc # "write" /\ pc # "done"
    /\ pc = "raised" => ~output.opened

C5_Witness ==
    /\ pc = "raised"
    /\ index = 2
    /\ "moves" \in DOMAIN tests[1]
    /\ tests[1].moves # <<>>
    /\ ~output.opened

\* C6: the promotion field is not null exactly when the move carries a
\* promotion piece type; its letter is uppercase when white is to move and
\* lowercase when black is, whatever the destination rank; it is not null
\* exactly for the types Promotion and PromotionCapture.
C6_PromotionField ==
    /\ pc = "push" =>
          /\ promotion # None <=> move.promotion # NoPieceType
          /\ promotion # None =>
                /\ promotion \in (IF board.turn = WHITE THEN WhiteLetters ELSE BlackLetters)
                /\ TypeOf(promotion) = move.promotion
          /\ promotion # None <=> move_type \in {"Promotion", "PromotionCapture"}
    /\ \A j \in 1..Len(moves) :
          moves[j].move.promotion # None
              <=> moves[j].move.type \in {"Promotion", "PromotionCapture"}

C6_Witness ==
    /\ pc = "push"
    /\ board.turn = BLACK
    /\ promotion = "q"
    /\ square_rank(move.to_square) = 0

\* C7: the moves list of a test has one record for each legal move of its
\* position, in the order of the engine's iteration: the j-th record is the
\* j-th move.
Describes(record, b, m) ==
    /\ record.move.from = square_name(m.from_square)
    /\ record.move.to = square_name(m.to_square)
    /\ record.move.piece = piece_at(b, m.from_square)
    /\ record.move.promotion # None <=> m.promotion # NoPieceType
    /\ record.move.promotion # None => TypeOf(record.move.promotion) = m.promotion
    /\ record.fen = Board_fen(BoardAfter(b, m))

DescribesAll(records, b, legal) ==
    /\ Len(records) = Len(legal)
    /\ \A n \in 1..Len(legal) : Describes(records[n], b, legal[n])

C7_OneRecordPerMove ==
    pc = "main_for" =>
        \A j \in 1..index :
            DescribesAll(tests[j].moves, set_fen(tests[j].fen),
                         legal_moves(set_fen(tests[j].fen)))

C7_Witness ==
    /\ pc = "main_for"
    /\ index = 1
    /\ Len(tests[1].moves) = 25
    /\ tests[1].moves[1].uci = "h1h8"
    /\ tests[1].moves[25].uci = "e5d6"

\* C8: the moves list of a test depends on its FEN alone: two tests of one
\* run with the same FEN get the same list, whatever was processed before
\* them and wherever they stand in the input.
RecordOf(b, m) ==
    [move |-> [from |-> square_name(m.from_square), to |-> square_name(m.to_square),
               piece |-> piece_at(b, m.from_square),
               capture |-> capture_letter(b, m),
               promotion |-> promotion_letter(b, m),
               type |-> get_move_type(b, m)],
     uci |-> uci(b, m), san |-> san(b, m), lan |-> lan(b, m),
     fen |-> Board_fen(BoardAfter(b, m))]

RecordsOf(b, legal) == [n \in 1..Len(legal) |-> RecordOf(b, legal[n])]

\* the list that the position a FEN names determines
MovesOfFen(f) == RecordsOf(set_fen(f), legal_moves(set_fen(f)))

SameButMoves(now, read) ==
    /\ Len(now) = Len(read)
    /\ \A j \in 1..Len(read) :
          /\ DOMAIN read[j] \subseteq DOMAIN now[j]
          /\ DOMAIN now[j] \subseteq DOMAIN read[j] \cup {"moves"}
          /\ \A key \in DOMAIN read[j] \ {"moves"} : now[j][key] = read[j][key]

C9_OnlyMovesChanges ==
    /\ pc \notin {"read", "raised"} => SameButMoves(tests, input.tests)
    /\ output.opened => SameButMoves(output.tests, input.tests)

C9_Witness ==
    /\ output.opened
    /\ Len(output.tests) = 2
    /\ "name" \in DOMAIN output.tests[1]
    /\ output.tests[1].name = "white"
    /\ output.tests[1].moves # <<>>
    /\ output.tests[2].fen = FenBlack

\* C10: the uci string of a record is its from square, then its to square,
\* then the lowercase promotion letter when the move promotes; it has 4
\* characters when the promotion field is null and 5 when it is not.
UciOfFields(r) ==
    /\ r.uci = r.move.from \o r.move.to
                \o (IF r.move.promotion # None
                    THEN piece_symbol(TypeOf(r.move.promotion)) ELSE "")
    /\ Len(r.uci) = (IF r.move.promotion = None THEN 4 ELSE 5)

C10_Uci == \A j \in 1..Len(moves) : UciOfFields(moves[j])

C10_Witness ==
    /\ moves # <<>>
    /\ moves[Len(moves)].uci = "a7a8q"
    /\ moves[Len(moves)].move.promotion = "Q"
    /\ moves[Len(moves)].move.from = "a7"

\* C4: when the engine's answers for a move contradict one another (the
\* destination square is occupied and the engine says the move is neither a
\* capture nor a castle nor en passant), get_move_type does not return;
\* no such move is given the type Basic.
C4_ContradictionIsFatal ==
    pc = "returned" /\ answers.destination # None /\ ~answers.capture
        => classified # "Basic"

====
